---- MODULE Spec2Model ----
(***************************************************************************)
(* TripadvisorService (tripadvisor/service.py): the read-through cached    *)
(* API call, the two fetch wrappers with their error translation, and the  *)
(* three public queries with their transformers.                           *)
(*                                                                         *)
(* Callers run a public method step by step; the steps are the calls that  *)
(* leave the service (cache.get, requests.get, cache.set), so that two     *)
(* callers sharing one cache interleave exactly there.                     *)
(***************************************************************************)
EXTENDS Integers, Sequences, FiniteSets, TLC

VARIABLES
    cacheConfigured,  \* self._cache is not None
    cache,            \* the cache backend: key -> stored value, or None
    upstream,         \* the JSON documents the API holds, per resource
    pc,               \* per caller: position inside the public call
    method,           \* per caller: the public method called
    location_id,      \* per caller: its argument
    cache_key,        \* per caller: _api_call's cache_key argument
    url_path,         \* per caller: _api_call's url_path argument
    result,           \* per caller: _api_call's local `result` (cache.get's value)
    json_data,        \* per caller: _api_call's local `json_data`
    api_ret,          \* per caller: how _api_call ended (returned value / raised)
    ret,              \* per caller: how the public method ended
    gets,             \* per caller: requests.get calls made by this call
    sets,             \* per caller: cache.set calls made by this call
    response,         \* per caller: what the transport did for this call
    cache_origin      \* per key: the transport response the stored value came from

vars == <<cacheConfigured, cache, upstream, pc, method, location_id, cache_key,
          url_path, result, json_data, api_ret, ret, gets, sets, response, cache_origin>>

-----------------------------------------------------------------------------
(* Bounds *)

\* Longest "data" sequence of a reviews response.
MaxReviews == 2

-----------------------------------------------------------------------------
(* Python / JSON values *)

\* Python None, JSON null.
None == [t |-> "null"]

\* A JSON string value of a field that the API may also send as null.
JStr(s) == [t |-> "str", v |-> s]

\* Truthiness of a value obtained with dict.get: None and "" are falsy.
Truthy(v) == v # None /\ v.v # ""

\* dict.get(key) with the default None.
Get(d, k) == IF k \in DOMAIN d THEN d[k] ELSE None

\* The dict d without key k.
Without(d, k) == [f \in DOMAIN d \ {k} |-> d[f]]

\* How a call ends: a returned value or a raised exception.
Return(v) == [kind |-> "return", value |-> v]
Raise(e) == [kind |-> "raise", exc |-> e]
Running == [kind |-> "running"]

\* The JSON object {}.
EmptyDoc == [k \in {} |-> None]

Digits == <<"0", "1", "2", "3", "4", "5", "6", "7", "8", "9">>
IsDigit(ch) == \E i \in 1..10 : Digits[i] = ch
DigitValue(ch) == (CHOOSE i \in 1..10 : Digits[i] = ch) - 1

\* Value of a string of decimal digits, left to right.
RECURSIVE ParseDigits(_, _)
ParseDigits(s, acc) ==
    IF s = <<>> THEN acc
    ELSE ParseDigits(Tail(s), acc * 10 + DigitValue(Head(s)))

AllDigits(s) == Len(s) > 0 /\ \A i \in 1..Len(s) : IsDigit(s[i])

\* float(x) of a string x of an optional sign and decimal digits; anything
\* else is a ValueError.
Float(s) ==
    IF Len(s) > 1 /\ Head(s) = "-" /\ AllDigits(Tail(s))
    THEN Return([float |-> 0 - ParseDigits(Tail(s), 0)])
    ELSE IF AllDigits(s) THEN Return([float |-> ParseDigits(s, 0)])
    ELSE Raise("ValueError")

\* s[:n]
Slice(s, n) == SubSeq(s, 1, IF Len(s) < n THEN Len(s) ELSE n)

IsLeap(y) == (y % 4 = 0 /\ y % 100 # 0) \/ y % 400 = 0
DaysInMonth(y, m) ==
    IF m = 2 THEN (IF IsLeap(y) THEN 29 ELSE 28)
    ELSE IF m \in {4, 6, 9, 11} THEN 30 ELSE 31

\* datetime.date.fromisoformat of a 'YYYY-MM-DD' string; ValueError otherwise.
FromIsoFormat(s) ==
    IF /\ Len(s) = 10
       /\ s[5] = "-" /\ s[8] = "-"
       /\ AllDigits(SubSeq(s, 1, 4)) /\ AllDigits(SubSeq(s, 6, 7))
       /\ AllDigits(SubSeq(s, 9, 10))
    THEN LET y == ParseDigits(SubSeq(s, 1, 4), 0)
             m == ParseDigits(SubSeq(s, 6, 7), 0)
             d == ParseDigits(SubSeq(s, 9, 10), 0)
         IN IF y >= 1 /\ m \in 1..12 /\ d >= 1 /\ d <= DaysInMonth(y, m)
            THEN Return([year |-> y, month |-> m, day |-> d])
            ELSE Raise("ValueError")
    ELSE Raise("ValueError")

-----------------------------------------------------------------------------
(* Exceptions of the transport library *)

\* What requests.get / raise_for_status / response.json can end in.
TransportOutcomes == {"ok", "HTTPError", "ConnectionError", "Timeout", "JSONDecodeError"}

\* `except requests.exceptions.HTTPError` catches HTTPError alone:
\* ConnectionError, Timeout and JSONDecodeError are its siblings under
\* RequestException, not its subclasses.
IsHTTPError(e) == e = "HTTPError"

\* `except TripadvisorServiceError`
IsServiceError(e) == e = "TripadvisorServiceError"

-----------------------------------------------------------------------------
(* Responses of the API *)

LocationIds == {247957, 12889941}

\* A location-details response carrying every field the service reads.
DetailsFull ==
    [latitude |-> <<"1", "8">>,
     longitude |-> <<"-", "6", "8">>,
     rating_image_url |-> "rating_45.svg",
     num_reviews |-> "4321",
     ranking_data |-> [ranking_string |-> "#3 of 50 hotels"],
     web_url |-> "https://www.tripadvisor.com/Hotel_Review",
     subratings |->
        << [localized_name |-> "Cleanliness", rating_image_url |-> JStr("s45.svg")],
           [localized_name |-> "Service"],
           [localized_name |-> "Value", rating_image_url |-> None] >>]

\* The response for a location without reviews: coordinates and web page only.
DetailsNoReviews ==
    [latitude |-> <<"4", "2">>,
     longitude |-> <<"2", "7">>,
     web_url |-> "https://www.tripadvisor.com/Hotel_Review"]

\* Location-details responses: the two above, the full one with one field
\* left out, and the shapes with an incomplete nested object.
DetailsDocs ==
    {DetailsFull, DetailsNoReviews, EmptyDoc}
    \cup {Without(DetailsFull, f) : f \in DOMAIN DetailsFull}
    \cup {[DetailsFull EXCEPT !.ranking_data = [geo_location_name |-> "Punta Cana"]],
          [DetailsFull EXCEPT !.subratings =
              << [localized_name |-> "Cleanliness", rating_image_url |-> JStr("s45.svg")],
                 [rating_image_url |-> JStr("s40.svg")] >>],
          [DetailsFull EXCEPT !.subratings = << [name |-> "rate_room"] >>]}

FullReview ==
    [published_date |-> <<"2", "0", "2", "3", "-", "0", "2", "-", "2", "8",
                          "T", "1", "0", ":", "0", "4", ":", "3", "6", "Z">>,
     rating_image_url |-> JStr("r50.svg"),
     text |-> "Great stay",
     title |-> "Loved it",
     user |-> [username |-> "anna"],
     trip_type |-> "Couples"]

\* Entries of a reviews response's "data".
ReviewEntries ==
    {FullReview,
     Without([FullReview EXCEPT !.rating_image_url = JStr("r30.svg"),
                                !.text = "Average"], "trip_type"),
     Without(FullReview, "rating_image_url"),
     [FullReview EXCEPT !.rating_image_url = None],
     [FullReview EXCEPT !.rating_image_url = JStr("")],
     Without(FullReview, "text"),
     [FullReview EXCEPT !.published_date = <<"2", "0", "2", "3", "-", "0", "2",
                                             "-", "3", "0">>]}

\* The body the API sends along with a non-2xx status.
ErrorDoc == [error |-> [message |-> "Forbidden", code |-> "403"]]

SeqsUpTo(S, n) == UNION {[1..k -> S] : k \in 0..n}

\* Reviews responses: a "data" sequence of up to MaxReviews entries, or a
\* body without "data".
ReviewsDocs ==
    {EmptyDoc} \cup {[data |-> d] : d \in SeqsUpTo(ReviewEntries, MaxReviews)}

-----------------------------------------------------------------------------
(* Cache keys and endpoint paths *)

\* self._api_url, with its trailing slash.
ApiUrl == "https://api.content.tripadvisor.com/api/v1/location/"

\* urljoin(self._api_url, url_path)
UrlJoin(base, path) == base \o path

DetailsCacheKeyReviewsPrefix(id) == "tripadvisor_reviews_cache_" \o ToString(id)
DetailsCacheKey(id) == "tripadvisor_detail_cache_" \o ToString(id)
DetailsUrlPath(id) == ToString(id) \o "/details"
ReviewsCacheKey(id) == "tripadvisor_reviews_cache_" \o ToString(id)
ReviewsUrlPath(id) == ToString(id) \o "/reviews"

CacheKeys == {DetailsCacheKey(id) : id \in LocationIds}
             \cup {ReviewsCacheKey(id) : id \in LocationIds}

\* The API's resources, GET {api_url}{location_id}/details and
\* GET {api_url}{location_id}/reviews, and their addresses.
Resources == {"details", "reviews"} \X LocationIds
ResourceUrl(r) == ApiUrl \o ToString(r[2]) \o "/" \o r[1]

-----------------------------------------------------------------------------
(* Fetch wrappers: error translation *)

\* _get_location_details / _get_reviews around the outcome of _api_call.
TranslateNothing(api) == api
TranslateHTTPError(api) ==
    IF api.kind = "raise" /\ IsHTTPError(api.exc)
    THEN Raise("TripadvisorServiceError")
    ELSE api

-----------------------------------------------------------------------------
(* Public methods: transformers *)

Coordinates(lat, long) == <<lat, long>>

LatLongDefaulting(location_data) ==
    IF {"latitude", "longitude"} \subseteq DOMAIN location_data
    THEN Return(Coordinates(Float(location_data["latitude"]).value,
                            Float(location_data["longitude"]).value))
    ELSE Return(Coordinates([float |-> 0], [float |-> 0]))
LatLong(location_data) ==
    IF "latitude" \notin DOMAIN location_data THEN Raise("KeyError")
    ELSE LET lat == Float(location_data["latitude"])
         IN IF lat.kind = "raise" THEN lat
            ELSE IF "longitude" \notin DOMAIN location_data THEN Raise("KeyError")
            ELSE LET long == Float(location_data["longitude"])
                 IN IF long.kind = "raise" THEN long
                    ELSE Return(Coordinates(lat.value, long.value))

\* get_lat_long, given how _get_location_details ended.
get_lat_long(fetch) ==
    IF fetch.kind = "raise"
    THEN IF IsServiceError(fetch.exc)
         THEN Return(Coordinates([float |-> 0], [float |-> 0]))
         ELSE fetch
    ELSE LatLong(fetch.value)

\* The subratings comprehension: entries with a truthy rating_image_url, each
\* read for its localized_name (a KeyError when it has none).
RECURSIVE Subratings(_)
Subratings(values) ==
    IF values = <<>> THEN Return(<<>>)
    ELSE LET subrating == Head(values)
             rating_image_url == Get(subrating, "rating_image_url")
         IN IF ~Truthy(rating_image_url) THEN Subratings(Tail(values))
            ELSE IF "localized_name" \notin DOMAIN subrating THEN Raise("KeyError")
            ELSE LET rest == Subratings(Tail(values))
                 IN IF rest.kind = "raise" THEN rest
                    ELSE Return(<< [localized_name |-> subrating["localized_name"],
                                    rating_image_url |-> rating_image_url.v] >>
                                \o rest.value)

\* The keys whose lookup is inside `try ... except KeyError`.
RequiredPresent(location_data, ranking_data) ==
    /\ "rating_image_url" \in DOMAIN location_data
    /\ "num_reviews" \in DOMAIN location_data
    /\ "ranking_string" \in DOMAIN ranking_data
    /\ "web_url" \in DOMAIN location_data

ReviewsDetails(location_data) ==
    LET ranking_data == IF "ranking_data" \in DOMAIN location_data
                        THEN location_data["ranking_data"]
                        ELSE [ranking_string |-> ""]
        subratings == Subratings(IF "subratings" \in DOMAIN location_data
                                 THEN location_data["subratings"] ELSE <<>>)
    IN IF subratings.kind = "raise" THEN subratings
       ELSE IF RequiredPresent(location_data, ranking_data)
       THEN Return([rating_image_url |-> location_data["rating_image_url"],
                    num_reviews |-> location_data["num_reviews"],
                    ranking_string |-> ranking_data["ranking_string"],
                    web_url |-> location_data["web_url"],
                    subratings |-> subratings.value])
       ELSE Return(None)

\* get_hotel_reviews_details, given how _get_location_details ended.
get_hotel_reviews_details(fetch) ==
    IF fetch.kind = "raise"
    THEN IF IsServiceError(fetch.exc) THEN Return(None) ELSE fetch
    ELSE ReviewsDetails(fetch.value)

\* The placeholder of review.get("trip_type", ...), in ASCII.
TripTypeDefault == "Neznamy"

\* One SingleReview(...) construction; the keyword arguments are evaluated
\* in the order written.
SingleReview(review, rating_image_url) ==
    IF "published_date" \notin DOMAIN review THEN Raise("KeyError")
    ELSE LET published_date == FromIsoFormat(Slice(review["published_date"], 10))
         IN IF published_date.kind = "raise" THEN published_date
            ELSE IF \/ "text" \notin DOMAIN review
                    \/ "title" \notin DOMAIN review
                    \/ "user" \notin DOMAIN review
                    \/ "username" \notin DOMAIN review["user"]
            THEN Raise("KeyError")
            ELSE Return([published_date |-> published_date.value,
                         rating_image_url |-> rating_image_url.v,
                         text |-> review["text"],
                         title |-> review["title"],
                         username |-> review["user"]["username"],
                         trip_type |-> IF "trip_type" \in DOMAIN review
                                       THEN review["trip_type"] ELSE TripTypeDefault])

\* Which entries the comprehension keeps.
KeepReviewNotNone(review) == Get(review, "rating_image_url") # None
KeepReview(review) == Truthy(Get(review, "rating_image_url"))

RECURSIVE ReviewsList(_)
ReviewsList(reviews) ==
    IF reviews = <<>> THEN Return(<<>>)
    ELSE LET review == Head(reviews)
         IN IF ~KeepReview(review) THEN ReviewsList(Tail(reviews))
            ELSE LET one == SingleReview(review, Get(review, "rating_image_url"))
                 IN IF one.kind = "raise" THEN one
                    ELSE LET rest == ReviewsList(Tail(reviews))
                         IN IF rest.kind = "raise" THEN rest
                            ELSE Return(<<one.value>> \o rest.value)

\* get_reviews_list, given how _get_reviews ended: the ["data"] lookup is
\* inside the try, whose except clause names TripadvisorServiceError only.
get_reviews_list(fetch) ==
    IF fetch.kind = "raise"
    THEN IF IsServiceError(fetch.exc) THEN Return(<<>>) ELSE fetch
    ELSE IF "data" \notin DOMAIN fetch.value THEN Raise("KeyError")
    ELSE ReviewsList(fetch.value["data"])

Methods == {"get_lat_long", "get_hotel_reviews_details", "get_reviews_list"}

\* The public method `m`, given how _api_call ended.
PublicResult(m, api) ==
    LET fetch == TranslateHTTPError(api)
    IN IF m = "get_lat_long" THEN get_lat_long(fetch)
       ELSE IF m = "get_hotel_reviews_details" THEN get_hotel_reviews_details(fetch)
       ELSE get_reviews_list(fetch)

-----------------------------------------------------------------------------
(* _api_call *)

Callers == {"caller1", "caller2"}

\* `if result is not None:  # Cache hit.`
CacheHitTruthy(r) == r # None /\ r # EmptyDoc
CacheHit(r) == r # None

\* requests.get raises on a network failure, raise_for_status on a non-2xx
\* status, response.json on an unparsable body.
RequestRaisesNoStatusCheck(outcome) ==
    outcome \in {"ConnectionError", "Timeout", "JSONDecodeError"}
RequestRaises(outcome) == outcome # "ok"

\* The body that comes with an outcome of the GET of `url`: on success one
\* of the documents the API holds for the resource at that address.
Responses(url, outcome) ==
    IF outcome = "ok"
    THEN UNION {upstream[r] : r \in {q \in Resources : ResourceUrl(q) = url}}
    ELSE IF outcome = "HTTPError" THEN {ErrorDoc}
    ELSE {None}

\* `return json_data`, with cache.get's `result` in scope beside it.
ReturnedStale(data, cached) == cached
ReturnedValue(data, cached) == data

\* The stack unwinds from _api_call through the fetch wrapper and the
\* public method, which returns or raises.
Finish(c, api) ==
    /\ api_ret' = [api_ret EXCEPT ![c] = api]
    /\ ret' = [ret EXCEPT ![c] = PublicResult(method[c], api)]
    /\ pc' = [pc EXCEPT ![c] = "done"]

\* No transport call made.
NoResponse == [url |-> "", outcome |-> "none", body |-> None]

Init ==
    /\ cacheConfigured \in BOOLEAN
    /\ cache = [k \in CacheKeys |-> None]
    /\ upstream = [r \in Resources |->
            IF r[1] = "details"
            THEN (IF r[2] = 247957 THEN {DetailsFull} ELSE {DetailsNoReviews})
            ELSE (IF r[2] = 247957 THEN {[data |-> <<FullReview>>], EmptyDoc}
                  ELSE {[data |-> <<>>]})]
    /\ pc = [c \in Callers |-> "idle"]
    /\ method = [c \in Callers |-> "none"]
    /\ location_id = [c \in Callers |-> 0]
    /\ cache_key = [c \in Callers |-> ""]
    /\ url_path = [c \in Callers |-> ""]
    /\ result = [c \in Callers |-> None]
    /\ json_data = [c \in Callers |-> None]
    /\ api_ret = [c \in Callers |-> Running]
    /\ ret = [c \in Callers |-> Running]
    /\ gets = [c \in Callers |-> 0]
    /\ sets = [c \in Callers |-> 0]
    /\ response = [c \in Callers |-> NoResponse]
    /\ cache_origin = [k \in CacheKeys |-> NoResponse]

\* A caller enters public method m: the fetch wrapper builds the key and the
\* path, and _api_call reads self._cache.
Call(c, m, id) ==
    /\ pc[c] = "idle"
    /\ method' = [method EXCEPT ![c] = m]
    /\ location_id' = [location_id EXCEPT ![c] = id]
    /\ cache_key' = [cache_key EXCEPT ![c] =
            IF m = "get_reviews_list" THEN ReviewsCacheKey(id) ELSE DetailsCacheKey(id)]
    /\ url_path' = [url_path EXCEPT ![c] =
            IF m = "get_reviews_list" THEN ReviewsUrlPath(id) ELSE DetailsUrlPath(id)]
    /\ pc' = [pc EXCEPT ![c] = IF cacheConfigured THEN "cache_get" ELSE "request"]
    /\ UNCHANGED <<cacheConfigured, cache, upstream, result, json_data, api_ret,
                   ret, gets, sets, response, cache_origin>>

\* result = cache.get(cache_key); a hit returns it.
CacheGet(c) ==
    /\ pc[c] = "cache_get"
    /\ LET r == cache[cache_key[c]]
       IN /\ result' = [result EXCEPT ![c] = r]
          /\ IF CacheHit(r)
             THEN Finish(c, Return(r))
             ELSE /\ pc' = [pc EXCEPT ![c] = "request"]
                  /\ UNCHANGED <<api_ret, ret>>
    /\ UNCHANGED <<cacheConfigured, cache, upstream, method, location_id, cache_key,
                   url_path, json_data, gets, sets, response, cache_origin>>

\* requests.get, raise_for_status, response.json; without a cache the body
\* is returned at once.
Request(c, outcome, body) ==
    /\ pc[c] = "request"
    /\ body \in Responses(UrlJoin(ApiUrl, url_path[c]), outcome)
    /\ gets' = [gets EXCEPT ![c] = @ + 1]
    /\ response' = [response EXCEPT ![c] =
            [url |-> UrlJoin(ApiUrl, url_path[c]), outcome |-> outcome, body |-> body]]
    /\ IF RequestRaises(outcome)
       THEN /\ Finish(c, Raise(outcome))
            /\ UNCHANGED json_data
       ELSE /\ json_data' = [json_data EXCEPT ![c] = body]
            /\ IF cacheConfigured
               THEN /\ pc' = [pc EXCEPT ![c] = "cache_set"]
                    /\ UNCHANGED <<api_ret, ret>>
               ELSE Finish(c, Return(ReturnedValue(body, result[c])))
    /\ UNCHANGED <<cacheConfigured, cache, upstream, method, location_id, cache_key,
                   url_path, result, sets, cache_origin>>

\* cache.set(cache_key, json_data, timeout=...); return json_data.
CacheSet(c) ==
    /\ pc[c] = "cache_set"
    /\ cache' = [cache EXCEPT ![cache_key[c]] = json_data[c]]
    /\ cache_origin' = [cache_origin EXCEPT ![cache_key[c]] = response[c]]
    /\ sets' = [sets EXCEPT ![c] = @ + 1]
    /\ Finish(c, Return(ReturnedValue(json_data[c], result[c])))
    /\ UNCHANGED <<cacheConfigured, upstream, method, location_id, cache_key,
                   url_path, result, json_data, gets, response>>

\* The caller has its answer and may call again.
Complete(c) ==
    /\ pc[c] = "done"
    /\ pc' = [pc EXCEPT ![c] = "idle"]
    /\ method' = [method EXCEPT ![c] = "none"]
    /\ location_id' = [location_id EXCEPT ![c] = 0]
    /\ cache_key' = [cache_key EXCEPT ![c] = ""]
    /\ url_path' = [url_path EXCEPT ![c] = ""]
    /\ result' = [result EXCEPT ![c] = None]
    /\ json_data' = [json_data EXCEPT ![c] = None]
    /\ api_ret' = [api_ret EXCEPT ![c] = Running]
    /\ ret' = [ret EXCEPT ![c] = Running]
    /\ gets' = [gets EXCEPT ![c] = 0]
    /\ sets' = [sets EXCEPT ![c] = 0]
    /\ response' = [response EXCEPT ![c] = NoResponse]
    /\ UNCHANGED <<cacheConfigured, cache, upstream, cache_origin>>

\* The backend drops an entry whose timeout (self._cache_timeout) has passed.
Expire(k) ==
    /\ cache[k] # None
    /\ cache' = [cache EXCEPT ![k] = None]
    /\ cache_origin' = [cache_origin EXCEPT ![k] = NoResponse]
    /\ UNCHANGED <<cacheConfigured, upstream, pc, method, location_id, cache_key,
                   url_path, result, json_data, api_ret, ret, gets, sets, response>>

Step(c) ==
    \/ \E m \in Methods, id \in LocationIds : Call(c, m, id)
    \/ CacheGet(c)
    \/ \E outcome \in TransportOutcomes :
          \E body \in Responses(UrlJoin(ApiUrl, url_path[c]), outcome) :
             Request(c, outcome, body)
    \/ CacheSet(c)
    \/ Complete(c)

Next ==
    \/ \E c \in Callers : Step(c)
    \/ \E k \in CacheKeys : Expire(k)

\* Two callers sharing the cache; the API holds the documents of the two
\* locations of the tests, one with reviews and one without.
Spec == Init /\ [][Next]_vars

\* One caller; the API holds one document, any of the documents above, for
\* one resource and answers every other request with an error.
SeqInit ==
    /\ Init!1 /\ Init!2
    /\ \E known \in Resources :
          \E doc \in (IF known[1] = "details" THEN DetailsDocs ELSE ReviewsDocs) :
             upstream = [r \in Resources |-> IF r = known THEN {doc} ELSE {}]
    /\ Init!4 /\ Init!5 /\ Init!6 /\ Init!7 /\ Init!8 /\ Init!9 /\ Init!10
    /\ Init!11 /\ Init!12 /\ Init!13 /\ Init!14 /\ Init!15 /\ Init!16

SeqNext ==
    \/ Step("caller1")
    \/ \E k \in CacheKeys : Expire(k)

SeqSpec == SeqInit /\ [][SeqNext]_vars

-----------------------------------------------------------------------------
(* Properties *)

DetailsMethods == {"get_lat_long", "get_hotel_reviews_details"}

\* The resource a caller's public call is about.
ResourceOf(c) ==
    <<IF method[c] \in DetailsMethods THEN "details" ELSE "reviews", location_id[c]>>

\* (0.0, 0.0)
ZeroCoordinates == <<[float |-> 0], [float |-> 0]>>

\* C1: whenever a cache is configured and cache.get returned a non-null
\* value, _api_call has returned exactly that value and the call has made no
\* transport call and no cache write.
C1_CacheHitReturnsCached ==
    \A c \in Callers :
        (pc[c] # "idle" /\ cacheConfigured /\ result[c] # None) =>
            /\ pc[c] = "done"
            /\ api_ret[c] = Return(result[c])
            /\ gets[c] = 0
            /\ sets[c] = 0
            /\ response[c] = NoResponse

\* A call served from the cache while an earlier value is still stored.
C1_Witness ==
    \E c \in Callers :
        /\ pc[c] = "done" /\ result[c] # None
        /\ cache[cache_key[c]] = result[c]
        /\ gets[c] = 0

\* C2: a public call whose transport call raised an HTTP error returns the
\* method's fallback, (0.0, 0.0), None or the empty sequence, and does not
\* raise.
C2_HttpErrorFallbacks ==
    \A c \in Callers :
        (pc[c] = "done" /\ response[c].outcome = "HTTPError") =>
            /\ ret[c].kind = "return"
            /\ method[c] = "get_lat_long" => ret[c].value = ZeroCoordinates
            /\ method[c] = "get_hotel_reviews_details" => ret[c].value = None
            /\ method[c] = "get_reviews_list" => ret[c].value = <<>>

\* Each of the three methods has ended after an HTTP error.
C2_Witness ==
    \E c \in Callers :
        /\ pc[c] = "done" /\ response[c].outcome = "HTTPError"
        /\ method[c] = "get_reviews_list" /\ ret[c] = Return(<<>>)

\* C3: get_reviews_list never raises and never returns None, whatever the
\* upstream outcome.
C3_ReviewsListNeverRaises ==
    \A c \in Callers :
        (pc[c] = "done" /\ method[c] = "get_reviews_list") =>
            ret[c].kind = "return" /\ ret[c].value # None

\* C4: for every location-details response, get_hotel_reviews_details
\* returns a summary with its four required fields or None.
C4_SummaryOrAbsent ==
    \A c \in Callers :
        (pc[c] = "done" /\ method[c] = "get_hotel_reviews_details"
                        /\ api_ret[c].kind = "return") =>
            /\ ret[c].kind = "return"
            /\ \/ ret[c].value = None
               \/ {"rating_image_url", "num_reviews", "ranking_string", "web_url"}
                      \subseteq DOMAIN ret[c].value

\* C5: a transport error (non-2xx status, network failure, timeout) never
\* reaches the caller of a public method, and the call made one transport
\* call.
C5_TransportErrorsContained ==
    \A c \in Callers :
        (pc[c] = "done"
            /\ response[c].outcome \in {"HTTPError", "ConnectionError", "Timeout"}) =>
            ret[c].kind = "return" /\ gets[c] = 1

\* C6 (state part): a call writes the cache at most once, only with a cache
\* configured and after its transport call succeeded; a finished call whose
\* transport call succeeded wrote once when a cache is configured and never
\* when not, and a call that ended otherwise wrote nothing.
C6_Writes ==
    \A c \in Callers :
        /\ gets[c] <= 1 /\ sets[c] <= 1
        /\ sets[c] = 1 => cacheConfigured /\ response[c].outcome = "ok"
        /\ (pc[c] = "done" /\ response[c].outcome = "ok") =>
               sets[c] = IF cacheConfigured THEN 1 ELSE 0
        /\ (pc[c] = "done" /\ response[c].outcome # "ok") => sets[c] = 0

\* C6 (step part): the cache changes in one key at a time, by expiry or by
\* the write of a caller whose transport call succeeded, to that call's body.
C6_CacheStep ==
    cache' # cache =>
        \E k \in CacheKeys :
            /\ \A j \in CacheKeys \ {k} : cache'[j] = cache[j]
            /\ \/ cache'[k] = None
               \/ \E c \in Callers :
                     /\ sets'[c] = sets[c] + 1
                     /\ cache_key[c] = k
                     /\ response[c].outcome = "ok"
                     /\ cache'[k] = response[c].body

\* C6: the cache is written only after a transport call returned a 2xx
\* status with a parsed body, at most once per such call (once with a cache,
\* never without), and a call ending in an error leaves the cache alone.
C6_CacheWrittenOnlyAfterSuccess == []C6_Writes /\ [][C6_CacheStep]_vars

\* A call has fetched, stored and returned a body.
C6_Witness ==
    \E c \in Callers :
        /\ pc[c] = "done" /\ sets[c] = 1 /\ gets[c] = 1
        /\ cache[cache_key[c]] = response[c].body

\* C7: every value the cache holds under the details (reviews) key of a
\* location is, unchanged, the body of a successful transport call to the
\* details (reviews) resource of that location, and a call served from the
\* cache receives a document of its own resource.
C7_CacheFidelity ==
    /\ \A id \in LocationIds :
        /\ cache[DetailsCacheKey(id)] # None =>
              cache_origin[DetailsCacheKey(id)] =
                  [url |-> ResourceUrl(<<"details", id>>), outcome |-> "ok",
                   body |-> cache[DetailsCacheKey(id)]]
        /\ cache[ReviewsCacheKey(id)] # None =>
              cache_origin[ReviewsCacheKey(id)] =
                  [url |-> ResourceUrl(<<"reviews", id>>), outcome |-> "ok",
                   body |-> cache[ReviewsCacheKey(id)]]
    /\ \A c \in Callers :
        (pc[c] = "done" /\ result[c] # None) =>
            /\ api_ret[c] = Return(result[c])
            /\ result[c] \in upstream[ResourceOf(c)]

\* A details call is served from the cache while the reviews key of the
\* same location holds a value too.
C7_Witness ==
    \E c \in Callers :
        /\ pc[c] = "done" /\ result[c] # None
        /\ method[c] \in DetailsMethods
        /\ cache[ReviewsCacheKey(location_id[c])] # None
        /\ cache[DetailsCacheKey(location_id[c])] = result[c]

\* Two callers are inside _api_call for the same key, both after a missed
\* cache read and both with their transport call made.
Racing(c, d) ==
    /\ c # d
    /\ pc[c] \in {"cache_set", "done"} /\ pc[d] \in {"cache_set", "done"}
    /\ cache_key[c] = cache_key[d]
    /\ result[c] = None /\ result[d] = None
    /\ gets[c] = 1 /\ gets[d] = 1

\* C9: when two callers race on one key, the value under the key is absent
\* or the whole body of one of their successful transport calls, and a
\* caller whose _api_call returned got the whole body of its own call.
C9_RaceKeepsWholeBodies ==
    \A c, d \in Callers :
        Racing(c, d) =>
            /\ \/ cache[cache_key[c]] = None
               \/ \E w \in {c, d} :
                     /\ response[w].outcome = "ok"
                     /\ cache[cache_key[c]] = response[w].body
                     /\ response[w].body \in upstream[ResourceOf(w)]
            /\ \A w \in {c, d} :
                  (pc[w] = "done" /\ api_ret[w].kind = "return") =>
                      /\ response[w].outcome = "ok"
                      /\ api_ret[w].value = response[w].body
                      /\ response[w].body \in upstream[ResourceOf(w)]

\* Both racing callers fetched successfully (the second call was redundant),
\* they got different bodies, and the cache holds the later write.
C9_Witness ==
    \E c, d \in Callers :
        /\ Racing(c, d)
        /\ pc[c] = "done" /\ pc[d] = "done"
        /\ sets[c] = 1 /\ sets[d] = 1
        /\ response[c].body # response[d].body
        /\ cache[cache_key[c]] = response[d].body

\* The entries of `data` whose rating_image_url is a non-empty string.
KeptIndexes(data) ==
    {i \in 1..Len(data) :
        /\ "rating_image_url" \in DOMAIN data[i]
        /\ data[i]["rating_image_url"].t = "str"
        /\ data[i]["rating_image_url"].v # ""}

\* The j-th smallest element of a set of indexes.
NthOf(K, j) == CHOOSE i \in K : Cardinality({k \in K : k < i}) = j - 1

\* C8: when get_reviews_list returns for a response with "data", the result
\* has one SingleReview per entry with a non-null, non-empty
\* rating_image_url, in response order, duplicates kept, each built from its
\* entry; no review of the result has an empty rating_image_url.
C8_ReviewsFilteredInOrder ==
    \A c \in Callers :
        (pc[c] = "done" /\ method[c] = "get_reviews_list"
            /\ api_ret[c].kind = "return" /\ ret[c].kind = "return") =>
            LET data == api_ret[c].value["data"]
                out == ret[c].value
                K == KeptIndexes(data)
            IN /\ Len(out) = Cardinality(K)
               /\ \A j \in 1..Len(out) :
                     LET review == data[NthOf(K, j)]
                     IN /\ out[j].rating_image_url = review["rating_image_url"].v
                        /\ out[j].rating_image_url # ""
                        /\ out[j].text = review["text"]
                        /\ out[j].title = review["title"]
                        /\ out[j].username = review["user"]["username"]

\* A response of two kept entries around nothing, or of a kept entry and a
\* dropped one: the result is shorter than the data and keeps the first
\* entry's place.
C8_Witness ==
    \E c \in Callers :
        /\ pc[c] = "done" /\ method[c] = "get_reviews_list"
        /\ api_ret[c].kind = "return" /\ ret[c].kind = "return"
        /\ Len(api_ret[c].value["data"]) = 2
        /\ Len(ret[c].value) = 1
        /\ ~KeepReview(api_ret[c].value["data"][1])
        /\ ret[c].value[1].text = "Average"

\* Duplicates are kept: the same entry twice gives the same review twice.
C8_WitnessDuplicates ==
    \E c \in Callers :
        /\ pc[c] = "done" /\ method[c] = "get_reviews_list"
        /\ ret[c].kind = "return" /\ Len(ret[c].value) = 2
        /\ ret[c].value[1] = ret[c].value[2]

\* The value of a string of decimal digits, by place.
RECURSIVE PlaceValue(_)
PlaceValue(s) ==
    IF s = <<>> THEN 0
    ELSE DigitValue(s[1]) * 10 ^ (Len(s) - 1) + PlaceValue(Tail(s))

SignedValue(s) == IF s[1] = "-" THEN 0 - PlaceValue(Tail(s)) ELSE PlaceValue(s)

\* C10: get_lat_long returns (0.0, 0.0) when the fetch raised the domain
\* error (the translated HTTP error) and lets every other exception of the
\* fetch through; after a successful fetch it raises KeyError when latitude
\* or longitude is missing, and otherwise returns both as floats.
C10_LatLongAbsorbsOnlyDomainError ==
    \A c \in Callers :
        (pc[c] = "done" /\ method[c] = "get_lat_long") =>
            LET a == api_ret[c]
            IN /\ (a.kind = "raise" /\ a.exc = "HTTPError") =>
                      ret[c] = Return(ZeroCoordinates)
               /\ (a.kind = "raise" /\ a.exc # "HTTPError") => ret[c] = a
               /\ (a.kind = "return"
                     /\ ~({"latitude", "longitude"} \subseteq DOMAIN a.value)) =>
                      ret[c] = Raise("KeyError")
               /\ (a.kind = "return"
                     /\ {"latitude", "longitude"} \subseteq DOMAIN a.value) =>
                      ret[c] = Return(<<[float |-> SignedValue(a.value["latitude"])],
                                        [float |-> SignedValue(a.value["longitude"])]>>)

\* A fetched response without latitude made get_lat_long raise KeyError.
C10_Witness ==
    \E c \in Callers :
        /\ pc[c] = "done" /\ method[c] = "get_lat_long"
        /\ api_ret[c].kind = "return"
        /\ "latitude" \notin DOMAIN api_ret[c].value
        /\ "longitude" \in DOMAIN api_ret[c].value
        /\ ret[c] = Raise("KeyError")

====
